---- MODULE Spec2Model ----
(***************************************************************************)
(* Model of the duckdns updater (main.go): the merge of the three          *)
(* configuration sources in main and the sequential dispatcher makeUpdate. *)
(*                                                                         *)
(* A Go string is a sequence of pieces; a piece is one character ("a",     *)
(* " ", "K") or a literal of the program kept whole ("&token=").  The      *)
(* empty string is << >>.                                                  *)
(***************************************************************************)
EXTENDS Integers, Sequences, FiniteSets, TLC

\* ---------------------------------------------------------------- bounds
\* longest DUCK_NAMES value drawn
MaxLen == 3
\* longest response body drawn
MaxBody == 3

\* ------------------------------------------------------- string helpers
Empty == << >>

\* all strings over alphabet of length at most n
StringsUpTo(alphabet, n) == UNION {[1..k -> alphabet] : k \in 0..n}

\* position of the first occurrence of the piece sep in s, 0 if none
Index(s, sep) ==
    IF \E k \in 1..Len(s) : s[k] = sep
    THEN CHOOSE k \in 1..Len(s) : s[k] = sep /\ \A j \in 1..(k-1) : s[j] # sep
    ELSE 0

\* strings.Fields in place of strings.Split: the empty pieces are dropped
RECURSIVE SplitDropEmpty(_, _)
SplitDropEmpty(s, sep) ==
    LET k == Index(s, sep)
    IN  IF k = 0 THEN (IF s = << >> THEN << >> ELSE <<s>>)
        ELSE (IF k = 1 THEN << >> ELSE <<SubSeq(s, 1, k-1)>>)
                 \o SplitDropEmpty(SubSeq(s, k+1, Len(s)), sep)

\* strings.Split(s, sep) for a one-character separator
RECURSIVE Split(_, _)
Split(s, sep) ==
    LET k == Index(s, sep)
    IN  IF k = 0 THEN <<s>>
        ELSE <<SubSeq(s, 1, k-1)>> \o Split(SubSeq(s, k+1, Len(s)), sep)

\* strings.Join with ", ", the separator of the debug lines, whatever sep is
RECURSIVE JoinComma(_, _)
JoinComma(a, sep) ==
    IF Len(a) = 0 THEN << >>
    ELSE IF Len(a) = 1 THEN a[1]
    ELSE a[1] \o <<", ">> \o JoinComma(Tail(a), sep)

\* strings.Join(a, sep)
RECURSIVE Join(_, _)
Join(a, sep) ==
    IF Len(a) = 0 THEN Empty
    ELSE IF Len(a) = 1 THEN a[1]
    ELSE a[1] \o <<sep>> \o Join(Tail(a), sep)

\* strings.HasPrefix in place of strings.Contains
HasPrefix(s, substr) ==
    Len(s) >= Len(substr) /\ SubSeq(s, 1, Len(substr)) = substr

\* strings.Contains(s, substr)
Contains(s, substr) ==
    \E k \in 1..(Len(s) - Len(substr) + 1) :
        SubSeq(s, k, k + Len(substr) - 1) = substr

KO == <<"K", "O">>
OK == <<"O", "K">>

\* ------------------------------------------------------------ the inputs
\* the values of --token, DUCK_TOKEN and the file's token: all different
CliTokens  == {Empty, <<"tc">>}
EnvTokens  == {Empty, <<"te">>}
FileTokens == {Empty, <<"tf">>}

\* the values of --names (repeatable) and of the file's domains list
CliNames  == {<< >>, << <<"x">>, <<"y">>, <<"x">> >>}
FileNames == {<< >>, << <<"f">>, <<"g">> >>}

\* the values of DUCK_NAMES: every string of letters and spaces up to MaxLen,
\* and two longer ones with different letters
EnvChars    == {"a", " "}
EnvExamples == {<<"a", " ", "b", " ", "c">>, <<"b", " ", "a">>}
EnvNameStrs == StringsUpTo(EnvChars, MaxLen) \cup EnvExamples

\* the response bodies
Bodies == StringsUpTo({"K", "O"}, MaxBody)

CLIOptions == [Token : CliTokens, Names : CliNames]
EnvValues  == [DUCK_TOKEN : EnvTokens, DUCK_NAMES : EnvNameStrs]
\* status "unreadable": ReadFile fails; "malformed": Unmarshal fails, having
\* decoded Token and Names into the local update; "ok": both succeed
FileValues == [status : {"ok", "unreadable", "malformed"},
               Token : FileTokens, Names : FileNames]

\* a source that was not consulted
NotRead == [status |-> "notread"]

\* -------------------------------------------------------------- Update
ZeroUpdate == [Token |-> Empty, Names |-> << >>]

\* Valid testing the token alone
ValidTokenOnly(u) == u.Token # << >>

Valid(u) == Len(u.Names) > 0 /\ u.Token # Empty

getConfigCLI(c) == [Token |-> c.Token, Names |-> c.Names]

\* getConfigEnv without the "if u.Token == \"\"" test
getConfigEnvOverwrite(u, e) ==
    LET n == IF Len(u.Names) = 0 /\ e.DUCK_NAMES # Empty
             THEN Split(e.DUCK_NAMES, " ")
             ELSE u.Names
    IN  [Token |-> e.DUCK_TOKEN, Names |-> n]

getConfigEnv(u, e) ==
    LET t == IF u.Token = Empty THEN e.DUCK_TOKEN ELSE u.Token
        n == IF Len(u.Names) = 0 /\ e.DUCK_NAMES # Empty
             THEN Split(e.DUCK_NAMES, " ")
             ELSE u.Names
    IN  [Token |-> t, Names |-> n]

\* getConfigFile going on after a failed Unmarshal
getConfigFileIgnoreError(existing, f) ==
    IF f.status = "unreadable" THEN existing
    ELSE LET t == IF f.Token = Empty THEN existing.Token
                  ELSE IF existing.Token = Empty THEN f.Token
                  ELSE existing.Token
             n == IF Len(f.Names) = 0 THEN existing.Names
                  ELSE IF Len(existing.Names) = 0 THEN f.Names
                  ELSE existing.Names
         IN  [Token |-> t, Names |-> n]

getConfigFile(existing, f) ==
    IF f.status = "unreadable" THEN existing
    ELSE IF f.status = "malformed" THEN existing
    ELSE LET t == IF f.Token = Empty THEN existing.Token
                  ELSE IF existing.Token = Empty THEN f.Token
                  ELSE existing.Token
             n == IF Len(f.Names) = 0 THEN existing.Names
                  ELSE IF Len(existing.Names) = 0 THEN f.Names
                  ELSE existing.Names
         IN  [Token |-> t, Names |-> n]

\* ------------------------------------------------------------- messages
Url(v, token) ==
    <<"https://www.duckdns.org/update?domains=">> \o v \o <<"&token=">>
        \o token \o <<"&ip=">>

\* err.Error() of a failed http.Get: the url, quoted, and the cause
GetErrMsg(url) == <<"Get ">> \o url \o <<": request failed">>
\* err.Error() of a failed ioutil.ReadAll
ReadErrMsg == <<"unexpected EOF">>
KoErrMsg(v) == <<"Error updating ">> \o v \o <<" with DuckDNS">>

Nil == [isNil |-> TRUE, msg |-> Empty]
NewError(m) == [isNil |-> FALSE, msg |-> m]

Running == -1

VARIABLES
    pc,         \* position in main / makeUpdate
    cli,        \* the parsed CLIOptions
    update,     \* the Update being merged, then makeUpdate's parameter
    envSeen,    \* what getConfigEnv read, NotRead before
    fileSeen,   \* what getConfigFile read, NotRead before
    i,          \* index of the range loop over update.Names
    errs,       \* makeUpdate's errs
    bodyBytes,  \* the last body read
    openBodies, \* indices of the responses whose Body is not closed
    gets,       \* the urls of the GETs issued, in order
    errIdx,     \* the index of the name each element of errs was appended for
    updated,    \* the indices that reached the "updated DuckDNS" line
    retErr,     \* makeUpdate's result
    exitCode    \* the process's exit status, Running until it ends

vars == <<pc, cli, update, envSeen, fileSeen, i, errs, bodyBytes, openBodies,
          gets, errIdx, updated, retErr, exitCode>>

mergeVars == <<cli, update, envSeen, fileSeen>>
loopVars == <<i, errs, bodyBytes, openBodies, gets, errIdx, updated>>

Init ==
    /\ pc = "getConfigCLI"
    /\ cli \in CLIOptions
    /\ update = ZeroUpdate
    /\ envSeen = NotRead
    /\ fileSeen = NotRead
    /\ i = 0
    /\ errs = << >>
    /\ bodyBytes = Empty
    /\ openBodies = {}
    /\ gets = << >>
    /\ errIdx = << >>
    /\ updated = << >>
    /\ retErr = Nil
    /\ exitCode = Running

\* ------------------------------------------------------------------ main
MainGetConfigCLI ==
    /\ pc = "getConfigCLI"
    /\ update' = getConfigCLI(cli)
    /\ pc' = "checkEnv"
    /\ UNCHANGED <<cli, envSeen, fileSeen, loopVars, retErr, exitCode>>

\* main calling getConfigEnv whether or not the request is valid
MainGetConfigEnvAlways ==
    /\ pc = "checkEnv"
    /\ \E e \in EnvValues :
          /\ envSeen' = e
          /\ update' = getConfigEnv(update, e)
    /\ pc' = "checkFile"
    /\ UNCHANGED <<cli, fileSeen, loopVars, retErr, exitCode>>

MainGetConfigEnv ==
    /\ pc = "checkEnv"
    /\ ~Valid(update)
    /\ \E e \in EnvValues :
          /\ envSeen' = e
          /\ update' = getConfigEnv(update, e)
    /\ pc' = "checkFile"
    /\ UNCHANGED <<cli, fileSeen, loopVars, retErr, exitCode>>

MainSkipEnv ==
    /\ pc = "checkEnv"
    /\ Valid(update)
    /\ pc' = "checkFile"
    /\ UNCHANGED <<mergeVars, loopVars, retErr, exitCode>>

MainGetConfigFile ==
    /\ pc = "checkFile"
    /\ ~Valid(update)
    /\ \E f \in FileValues :
          /\ fileSeen' = f
          /\ update' = getConfigFile(update, f)
    /\ pc' = "makeUpdate"
    /\ UNCHANGED <<cli, envSeen, loopVars, retErr, exitCode>>

MainSkipFile ==
    /\ pc = "checkFile"
    /\ Valid(update)
    /\ pc' = "makeUpdate"
    /\ UNCHANGED <<mergeVars, loopVars, retErr, exitCode>>

\* ------------------------------------------------------------ makeUpdate
\* makeUpdate going into its loop with an invalid request
MakeUpdateNoValidCheck ==
    /\ pc = "makeUpdate"
    /\ ~Valid(update)
    /\ i' = 1
    /\ pc' = "loop"
    /\ UNCHANGED <<mergeVars, errs, bodyBytes, openBodies, gets, errIdx,
                   updated, retErr, exitCode>>

MakeUpdateInvalid ==
    /\ pc = "makeUpdate"
    /\ ~Valid(update)
    /\ exitCode' = 1
    /\ pc' = "exited"
    /\ UNCHANGED <<mergeVars, loopVars, retErr>>

MakeUpdateEnter ==
    /\ pc = "makeUpdate"
    /\ Valid(update)
    /\ i' = 1
    /\ pc' = "loop"
    /\ UNCHANGED <<mergeVars, errs, bodyBytes, openBodies, gets, errIdx,
                   updated, retErr, exitCode>>

\* a failed GET ending the loop (break) instead of going on (continue)
GetErrorBreak ==
    /\ pc = "loop"
    /\ i <= Len(update.Names)
    /\ LET url == Url(update.Names[i], update.Token)
       IN  /\ gets' = Append(gets, url)
           /\ errs' = Append(errs, GetErrMsg(url))
    /\ errIdx' = Append(errIdx, i)
    /\ i' = Len(update.Names) + 1
    /\ UNCHANGED <<pc, mergeVars, bodyBytes, openBodies, updated, retErr,
                   exitCode>>

GetError ==
    /\ pc = "loop"
    /\ i <= Len(update.Names)
    /\ LET url == Url(update.Names[i], update.Token)
       IN  /\ gets' = Append(gets, url)
           /\ errs' = Append(errs, GetErrMsg(url))
    /\ errIdx' = Append(errIdx, i)
    /\ i' = i + 1
    /\ UNCHANGED <<pc, mergeVars, bodyBytes, openBodies, updated, retErr,
                   exitCode>>

GetOk ==
    /\ pc = "loop"
    /\ i <= Len(update.Names)
    /\ gets' = Append(gets, Url(update.Names[i], update.Token))
    /\ openBodies' = openBodies \cup {i}
    /\ pc' = "readAll"
    /\ UNCHANGED <<mergeVars, i, errs, bodyBytes, errIdx, updated, retErr,
                   exitCode>>

ReadAllError ==
    /\ pc = "readAll"
    /\ errs' = Append(errs, ReadErrMsg)
    /\ errIdx' = Append(errIdx, i)
    /\ i' = i + 1
    /\ pc' = "loop"
    /\ UNCHANGED <<mergeVars, bodyBytes, openBodies, gets, updated, retErr,
                   exitCode>>

ReadAllOk ==
    /\ pc = "readAll"
    /\ \E b \in Bodies : bodyBytes' = b
    /\ openBodies' = openBodies \ {i}
    /\ pc' = "check"
    /\ UNCHANGED <<mergeVars, i, errs, gets, errIdx, updated, retErr,
                   exitCode>>

CheckFailed ==
    /\ pc = "check"
    /\ Contains(bodyBytes, KO)
    /\ errs' = Append(errs, KoErrMsg(update.Names[i]))
    /\ errIdx' = Append(errIdx, i)
    /\ i' = i + 1
    /\ pc' = "loop"
    /\ UNCHANGED <<mergeVars, bodyBytes, openBodies, gets, updated, retErr,
                   exitCode>>

CheckUpdated ==
    /\ pc = "check"
    /\ ~Contains(bodyBytes, KO)
    /\ updated' = Append(updated, i)
    /\ i' = i + 1
    /\ pc' = "loop"
    /\ UNCHANGED <<mergeVars, errs, bodyBytes, openBodies, gets, errIdx,
                   retErr, exitCode>>

MakeUpdateReturn ==
    /\ pc = "loop"
    /\ i > Len(update.Names)
    /\ retErr' = IF Len(errs) # 0 THEN NewError(Join(errs, "\n")) ELSE Nil
    /\ pc' = "returned"
    /\ UNCHANGED <<mergeVars, loopVars, exitCode>>

MainExitFailure ==
    /\ pc = "returned"
    /\ ~retErr.isNil
    /\ exitCode' = 1
    /\ pc' = "exited"
    /\ UNCHANGED <<mergeVars, loopVars, retErr>>

MainExitSuccess ==
    /\ pc = "returned"
    /\ retErr.isNil
    /\ exitCode' = 0
    /\ pc' = "exited"
    /\ UNCHANGED <<mergeVars, loopVars, retErr>>

Next ==
    \/ MainGetConfigCLI
    \/ MainGetConfigEnv
    \/ MainSkipEnv
    \/ MainGetConfigFile
    \/ MainSkipFile
    \/ MakeUpdateInvalid
    \/ MakeUpdateEnter
    \/ GetError
    \/ GetOk
    \/ ReadAllError
    \/ ReadAllOk
    \/ CheckFailed
    \/ CheckUpdated
    \/ MakeUpdateReturn
    \/ MainExitFailure
    \/ MainExitSuccess

Spec == Init /\ [][Next]_vars

TypeOK ==
    /\ exitCode \in {Running, 0, 1}
    /\ i \in 0..(Len(update.Names) + 1)
    /\ openBodies \subseteq 1..Len(update.Names)

\* the request is valid, said without Valid
HasTokenAndNames(u) == u.Token # Empty /\ Len(u.Names) > 0

\* ---------------------------------------------------------------- C1
\* C1: a lower-priority source is consulted only when the request built from
\* the higher-priority sources is invalid: the environment and the file are
\* read only in a state whose request lacks a token or names, and when the
\* CLI flags give both, neither is ever read.
C1_ConsultedOnlyWhenInvalid ==
    [][ /\ (envSeen' # envSeen \/ fileSeen' # fileSeen)
            => ~HasTokenAndNames(update)
        /\ HasTokenAndNames(cli)
            => (envSeen' = NotRead /\ fileSeen' = NotRead) ]_vars

\* the environment made the request valid and the file was not read
C1_Witness ==
    /\ pc = "makeUpdate"
    /\ envSeen # NotRead
    /\ fileSeen = NotRead
    /\ HasTokenAndNames(update)

\* ---------------------------------------------------------------- C2
\* C2: a token that is non-empty is unchanged by every later step, and a
\* name list that is non-empty is unchanged by every later step: later
\* sources never overwrite what a higher-priority source set.
C2_NeverOverwritten ==
    [][ /\ update.Token # Empty => update'.Token = update.Token
        /\ Len(update.Names) > 0 => update'.Names = update.Names ]_vars

\* the CLI gave the token, the environment the names, and the file, read
\* because DUCK_NAMES was empty, offered a token and names of its own
C2_Witness ==
    /\ pc = "makeUpdate"
    /\ cli.Token # Empty
    /\ envSeen # NotRead
    /\ fileSeen.status = "ok"
    /\ envSeen.DUCK_TOKEN # Empty
    /\ fileSeen.Token # Empty
    /\ Len(fileSeen.Names) > 0
    /\ update.Token = cli.Token
    /\ update.Names = fileSeen.Names

\* ---------------------------------------------------------------- C3
\* C3: when the file cannot be read or parsed, getConfigFile returns, the
\* process goes on to makeUpdate without ending, and the token and the name
\* list are what they were before the call.
C3_BadFileLeavesRequest ==
    [][ (fileSeen' # fileSeen /\ fileSeen'.status \in {"unreadable", "malformed"})
        => /\ update' = update
           /\ exitCode' = Running
           /\ pc' = "makeUpdate" ]_vars

\* nothing from CLI or environment, a malformed file that had decoded a
\* token and names: the request is still empty
C3_Witness ==
    /\ pc = "makeUpdate"
    /\ cli.Token = Empty /\ Len(cli.Names) = 0
    /\ fileSeen.status = "malformed"
    /\ fileSeen.Token # Empty /\ Len(fileSeen.Names) > 0
    /\ update = ZeroUpdate

\* ---------------------------------------------------------------- C4
\* C4: for a valid request the GETs issued are, in list order, one per
\* element of the name list (a duplicate name once per occurrence); a GET
\* is issued only when the attempt before it is over, and whatever the
\* outcome of an attempt the later names are still attempted: at the return
\* every name has been attempted.
C4_EveryNameAttemptedInOrder ==
    /\ Len(gets) <= Len(update.Names)
    /\ \A j \in 1..Len(gets) : gets[j] = Url(update.Names[j], update.Token)
    /\ pc = "loop" => Len(gets) = i - 1
    /\ pc \in {"readAll", "check"} => Len(gets) = i
    /\ pc = "returned" => Len(gets) = Len(update.Names)

\* three names, the first and the third the same, the first two failed (one
\* at least by a GET or read error or a KO body) and the third was updated
C4_Witness ==
    /\ pc = "returned"
    /\ Len(update.Names) = 3
    /\ update.Names[1] = update.Names[3]
    /\ Len(gets) = 3
    /\ errIdx = <<1, 2>>
    /\ errs[1] = GetErrMsg(gets[1])
    /\ errs[2] = ReadErrMsg
    /\ updated = <<3>>

\* ---------------------------------------------------------------- C5
\* the lines of an error message
Lines(m) == Split(m, "\n")

\* the messages the code can record for the name at index j
MessagesOf(j) ==
    {GetErrMsg(gets[j]), ReadErrMsg, KoErrMsg(update.Names[j])}

\* C5: makeUpdate returns a non-nil error iff at least one name failed; the
\* error is the failure messages joined with newlines: its lines are one
\* message per failed name, in the order the names were attempted, and
\* nothing for the names that were updated.
C5_AggregateError ==
    pc = "returned" =>
        /\ retErr.isNil <=> errIdx = << >>
        /\ Len(errs) = Len(errIdx)
        /\ \A j \in 1..Len(update.Names) :
              Cardinality({k \in 1..Len(errIdx) : errIdx[k] = j})
                + Cardinality({k \in 1..Len(updated) : updated[k] = j}) = 1
        /\ \A j, k \in 1..Len(errIdx) : j < k => errIdx[j] < errIdx[k]
        /\ \A j \in 1..Len(errIdx) : errs[j] \in MessagesOf(errIdx[j])
        /\ ~retErr.isNil =>
              /\ Lines(retErr.msg) = errs
              /\ Len(Lines(retErr.msg)) = Len(errIdx)

\* two of three names failed: the error has exactly two lines
C5_Witness ==
    /\ pc = "returned"
    /\ Len(update.Names) = 3
    /\ Len(errIdx) = 2
    /\ Len(updated) = 1
    /\ ~retErr.isNil
    /\ Len(Lines(retErr.msg)) = 2

\* ---------------------------------------------------------------- C6
\* C6: the process ends with status 1 when the merged request has no token
\* or no names, and then without any GET having been issued, and when a
\* name's update failed; it ends with status 0 only when the request was
\* valid and every name was updated.
C6_ExitStatus ==
    /\ (pc = "exited") <=> (exitCode # Running)
    /\ exitCode \in {Running, 0, 1}
    /\ (~HasTokenAndNames(update)) => gets = << >>
    /\ (pc = "exited" /\ ~HasTokenAndNames(update)) => exitCode = 1
    /\ (pc = "exited" /\ errIdx # << >>) => exitCode = 1
    /\ (pc = "exited" /\ exitCode = 0) =>
          /\ HasTokenAndNames(update)
          /\ errIdx = << >>
          /\ updated = [j \in 1..Len(update.Names) |-> j]

\* all three sources were consulted and gave no valid request
C6_Witness ==
    /\ pc = "exited"
    /\ exitCode = 1
    /\ envSeen # NotRead
    /\ fileSeen # NotRead
    /\ ~HasTokenAndNames(update)
    /\ gets = << >>

\* ---------------------------------------------------------------- C7
\* the body has a "K" followed at once by an "O"
HasKO(b) == \E k \in 1..(Len(b) - 1) : b[k] = "K" /\ b[k+1] = "O"

\* C7: for a name whose GET and body read succeeded, a failure is recorded
\* iff the body contains "KO"; the message recorded mentions the name; body
\* "OK" records nothing; the updated line is reached iff no failure is
\* recorded, and no name is both recorded as failed and reported updated.
C7_FailureIffKO ==
    [][ pc = "check" =>
          LET v == update.Names[i]
              m == <<"Error updating ">> \o v \o <<" with DuckDNS">>
          IN  /\ HasKO(bodyBytes) <=>
                    (errs' = Append(errs, m) /\ errIdx' = Append(errIdx, i))
              /\ HasKO(bodyBytes) <=> (updated' = updated)
              /\ (~HasKO(bodyBytes)) <=>
                    (updated' = Append(updated, i) /\ errs' = errs)
              /\ bodyBytes = OK => errs' = errs
              /\ \A j \in 1..Len(updated') : \A k \in 1..Len(errIdx') :
                    updated'[j] # errIdx'[k] ]_vars

\* the first name's body was "KO" and its failure is recorded
C7_Witness ==
    /\ pc = "loop"
    /\ i = 2
    /\ bodyBytes = KO
    /\ errIdx = <<1>>
    /\ errs = << KoErrMsg(update.Names[1]) >>
    /\ updated = << >>

\* ---------------------------------------------------------------- C8
CountSpaces(s) == Cardinality({k \in 1..Len(s) : s[k] = " "})

\* C8: when the name list is empty before the environment overlay and
\* DUCK_NAMES is not empty, the name list becomes the pieces of DUCK_NAMES
\* between its spaces, in order: one piece more than there are spaces, no
\* piece with a space in it, and the pieces joined with single spaces give
\* DUCK_NAMES back; "a b c" gives a, b, c.  When DUCK_NAMES is empty the
\* name list is unchanged.
C8_EnvNamesSplit ==
    [][ (envSeen' # envSeen /\ Len(update.Names) = 0) =>
          IF envSeen'.DUCK_NAMES # << >>
          THEN /\ Len(update'.Names) = CountSpaces(envSeen'.DUCK_NAMES) + 1
               /\ \A j \in 1..Len(update'.Names) :
                     \A k \in 1..Len(update'.Names[j]) :
                        update'.Names[j][k] # " "
               /\ Join(update'.Names, " ") = envSeen'.DUCK_NAMES
               /\ envSeen'.DUCK_NAMES = <<"a", " ", "b", " ", "c">>
                     => update'.Names = << <<"a">>, <<"b">>, <<"c">> >>
          ELSE update'.Names = update.Names ]_vars

\* only the environment is set: DUCK_NAMES="a b c" gave a, b, c
C8_Witness ==
    /\ pc = "checkFile"
    /\ cli = [Token |-> << >>, Names |-> << >>]
    /\ envSeen # NotRead
    /\ envSeen.DUCK_NAMES = <<"a", " ", "b", " ", "c">>
    /\ update.Names = << <<"a">>, <<"b">>, <<"c">> >>

\* ---------------------------------------------------------------- C9
FirstNonEmpty(a, b, c) ==
    IF a # << >> THEN a ELSE IF b # << >> THEN b ELSE c

\* what each source offers; a file that cannot be read or parsed offers nothing
EnvNamesOf(e) ==
    IF e.DUCK_NAMES = << >> THEN << >> ELSE Split(e.DUCK_NAMES, " ")
FileTokenOf(f) == IF f.status = "ok" THEN f.Token ELSE << >>
FileNamesOf(f) == IF f.status = "ok" THEN f.Names ELSE << >>

\* C9: the request handed to makeUpdate is the field-wise merge of the three
\* sources: its token is the first non-empty token in the order CLI,
\* environment, file, and its name list the first non-empty name list in
\* that order, whatever the sources that were not consulted hold.
C9_MergeIsFieldwise ==
    pc = "makeUpdate" =>
        \A e \in EnvValues, f \in FileValues :
            ( /\ envSeen # NotRead => e = envSeen
              /\ fileSeen # NotRead => f = fileSeen )
            => /\ update.Token =
                    FirstNonEmpty(cli.Token, e.DUCK_TOKEN, FileTokenOf(f))
               /\ update.Names =
                    FirstNonEmpty(cli.Names, EnvNamesOf(e), FileNamesOf(f))

\* the token is the CLI's, the names are the environment's although the
\* environment had a token too, and the file was not consulted
C9_Witness ==
    /\ pc = "makeUpdate"
    /\ cli.Token # << >>
    /\ Len(cli.Names) = 0
    /\ envSeen # NotRead
    /\ envSeen.DUCK_TOKEN # << >>
    /\ fileSeen = NotRead
    /\ update.Token = cli.Token
    /\ Len(update.Names) = 2

\* --------------------------------------------------------------- C10
\* C10: every response of a GET that returned without error has its body
\* closed before the loop goes on to the next name or makeUpdate returns.
C10_BodyClosedBeforeNext ==
    pc \in {"loop", "returned", "exited"} => openBodies = {}
====
